---- MODULE Spec2Model ----
(***************************************************************************)
(* Session persistence of the code optimizer front end.                    *)
(*                                                                         *)
(*   - mockDb: the history and the library ("saved snippets") collections  *)
(*     kept in localStorage (frontend/mockStorage.ts).                     *)
(*   - the local optimizer, history and profile pages that call mockDb.    *)
(*   - the networked optimizer page: the load-session effect reading the   *)
(*     hand-off slot, and the derived booleans of the explanation view.    *)
(*   - the Remote Session Gateway behind the networked pages: saves,       *)
(*     renames, lists and deletes, with requests in flight.                *)
(*   - App: the logged-in user and the 'storage' listener, next to another *)
(*     tab that writes to the same localStorage.                           *)
(***************************************************************************)
EXTENDS Integers, Sequences, FiniteSets, TLC

(***************************************************************************)
(* Bounds of the model                                                     *)
(***************************************************************************)
\* longest history collection the model lets saveToHistory build
MaxHistory == 2
\* longest history collection built where the order of the records is watched
MaxOrder == 3

(***************************************************************************)
(* Values                                                                  *)
(***************************************************************************)
\* JavaScript undefined in a string-valued field (an absent id or name)
Undefined == "<undefined>"
\* An optional object (a localStorage value that may be null, the result of
\* find or Map.get that may be undefined) is a sequence: empty when the
\* object is absent, the object alone otherwise.
None == <<>>
Some(x) == <<x>>

\* session ids: what Math.random().toString(36).substring(2, 9) may give
Ids == {"a", "b"}
\* a name a user may type
Names == {"N1"}
\* payloads of a run (originalCode, optimizedCode, explanation, metrics,
\* changes): what the first and what a changed second run give
Runs == {1, 2}

\* x is falsy in `x || y`
Falsy(x) == x \in {Undefined, ""}

\* `Session-${id}`
DefaultName(id) == "Session-" \o id

\* OptimizationResult as a caller may hand it to saveToHistory: id and name
\* are optional, and the name may be empty or white space
OptimizationResult == [id : Ids \cup {Undefined},
                       name : Names \cup {Undefined, "", " "},
                       run : Runs]

\* OptimizationResult as the pages hand it to saveToProfile: the displayed
\* result of a first run, which carries its id and the name of the page
DisplayedResult == [id : Ids, name : {"New Session"}, run : {1}]

VARIABLES
  lsHistory,   \* localStorage[HISTORY_STORAGE_KEY]: None or Some(array)
  lsSaved,     \* localStorage[SAVED_SNIPPETS_KEY]: None or Some(array)
  lastOp,      \* the mockDb call the last step made: name, arguments, result
  corrupt,     \* the keys among "history", "saved" whose text is not JSON
  \* the local pages (pages/OptimizePage, HistoryPage, ProfilePage)
  route,               \* the page that is mounted
  optimizationResult,  \* OptimizePage state: None or Some(result)
  projectName,
  tempName,
  isRenaming,
  isProcessing,
  isSaving,
  hasJustSaved,
  pendingRun,    \* the handleRunOptimization call awaiting optimizeWithAI
  pendingSave,   \* the handleSaveToProfile timer that has not fired

  shown,         \* HistoryPage.history / ProfilePage.savedSnippets
  \* the networked pages (components/OptimizePage, components/ProfilePage)
  netRoute,        \* the page that is mounted
  sessionParam,    \* searchParams.get('session')
  openSession,     \* localStorage['opticode_open_session']: None or Some(raw)
  effect,          \* the load-session effect: "pending", or how it ended
  mountedBy,       \* what mounted the optimizer page
  consumed,        \* id of the slot object the effect removed last
  uncaught,        \* an exception left the effect
  userCode,
  result,          \* None or Some(PipelineResult)
  netProjectName,  \* projectName of the networked page
  netTempName,     \* tempName of the networked page
  savedSessionId,
  netIsProcessing, \* isProcessing of the networked page
  saveStatus,
  apiError,
  netIsSaving,     \* isSaving of the networked page
  \* the Remote Session Gateway and the networked profile page
  remote,          \* the sessions the gateway holds: a set of [id, name]
  pendingCreate,   \* the POST /api/sessions in flight: None or Some(payload)
  pendingDelete,   \* the DELETE in flight: None or Some(id)
  sessions,        \* ProfilePage.sessions: None while loading, or Some(set)
  sessionsError,
  lastCall,        \* the gateway call that completed last, and how
  pendingAnalyse,  \* a POST /api/analyse of handleRun is in flight
  savedFor,        \* the result savedSessionId was returned or hydrated for
  netIsRenaming,   \* isRenaming of the networked page
  renameCancelledRef,
  \* the App component of the local pages and mockAuth
  lsUserName,      \* localStorage[CURRENT_USER_NAME]
  currentUserName  \* App state: the user the routes are rendered for

pageVars == <<route, optimizationResult, projectName, tempName, isRenaming,
              isProcessing, isSaving, hasJustSaved, pendingRun,
              pendingSave, shown>>

netPageVars == <<netRoute, sessionParam, openSession, effect, mountedBy,
                 consumed, uncaught, userCode, result, netProjectName,
                 netTempName, savedSessionId, netIsProcessing, saveStatus,
                 apiError, netIsSaving, remote, pendingCreate, pendingDelete,
                 sessions, sessionsError, lastCall, pendingAnalyse, savedFor,
                 netIsRenaming, renameCancelledRef>>

appVars == <<lsUserName, currentUserName>>

\* what the calls of mockDb and the local pages leave as it is
netVars == <<netPageVars, corrupt, appVars>>

(***************************************************************************)
(* mockDb                                                                  *)
(***************************************************************************)
\* mockDb.getHistory: rawData ? JSON.parse(rawData) : []
getHistory == IF lsHistory = None THEN <<>> ELSE lsHistory[1]

\* mockDb.getSavedSnippets
getSavedSnippets == IF lsSaved = None THEN <<>> ELSE lsSaved[1]

\* the record saveToHistory stores and returns for data, id being the fresh
\* random id that is used when data carries none
itemWithId(data, fresh) ==
  LET id == IF Falsy(data.id) THEN fresh ELSE data.id
      name == IF Falsy(data.name) THEN DefaultName(id) ELSE data.name
  IN [data EXCEPT !.id = id, !.name = name]

\* the record put at the end
saveToHistory_Append(history, item) == history \o <<item>>

\* [itemWithId, ...history]
saveToHistory(history, item) == <<item>> \o history

\* a map that renames every record
renameIn_All(items, id, newName) ==
  [i \in 1..Len(items) |-> [items[i] EXCEPT !.name = newName]]

\* items.map(item => item.id === id ? { ...item, name: newName } : item)
renameIn(items, id, newName) ==
  [i \in 1..Len(items) |->
     IF items[i].id = id THEN [items[i] EXCEPT !.name = newName] ELSE items[i]]

\* saved.find(item => item.id === data.id)
findById(items, id) ==
  IF \E i \in 1..Len(items) : items[i].id = id
  THEN Some(items[CHOOSE i \in 1..Len(items) :
                    /\ items[i].id = id
                    /\ \A j \in 1..(i - 1) : items[j].id # id])
  ELSE None

\* saveToProfile_NoFind: saveToProfile without the early return
saveToProfile_NoFind(saved, data) == Some(<<data>> \o saved)

\* what saveToProfile writes to SAVED_SNIPPETS_KEY: None when it returns
\* before writing, Some([data, ...saved]) otherwise
saveToProfile(saved, data) ==
  IF findById(saved, data.id) # None THEN None ELSE Some(<<data>> \o saved)

\* a filter that drops only the first record with the id
RECURSIVE filterOut_First(_, _)
filterOut_First(items, id) ==
  IF items = <<>> THEN <<>>
  ELSE IF Head(items).id # id
       THEN <<Head(items)>> \o filterOut_First(Tail(items), id)
       ELSE Tail(items)

\* items.filter(item => item.id !== id)
RECURSIVE filterOut(_, _)
filterOut(items, id) ==
  IF items = <<>> THEN <<>>
  ELSE IF Head(items).id # id
       THEN <<Head(items)>> \o filterOut(Tail(items), id)
       ELSE filterOut(Tail(items), id)

\* new Map(allItems.map(item => [item.id, item])).get(id): a later entry of
\* allItems replaces an earlier one with the same key
mapGet(allItems, id) ==
  IF \E i \in 1..Len(allItems) : allItems[i].id = id
  THEN Some(allItems[CHOOSE i \in 1..Len(allItems) :
                       /\ allItems[i].id = id
                       /\ \A j \in (i + 1)..Len(allItems) : allItems[j].id # id])
  ELSE None

\* mockDb.getById on the current store
getById(id) == mapGet(getHistory \o getSavedSnippets, id)

\* number of records of items whose id is id
RECURSIVE countId(_, _)
countId(items, id) ==
  IF items = <<>> THEN 0
  ELSE (IF Head(items).id = id THEN 1 ELSE 0) + countId(Tail(items), id)

\* the call that is recorded in lastOp: its name, its id and name arguments,
\* what it returned, how many stored records carried the id when it began,
\* whether the call drew the id at random, and the error it threw
Call(op, id, name, ret, random) ==
  [op |-> op, id |-> id, name |-> name, ret |-> ret,
   matched |-> countId(getHistory, id) + countId(getSavedSnippets, id),
   random |-> random, error |-> "none"]

\* mockDb.saveToHistory(data), fresh being what Math.random gives
Db_saveToHistory(data, fresh) ==
  LET item == itemWithId(data, fresh) IN
  /\ lsHistory' = Some(saveToHistory(getHistory, item))
  /\ lastOp' = Call("saveToHistory", item.id, data.name, Some(item),
                    Falsy(data.id))
  /\ UNCHANGED lsSaved

\* a saveToProfile that moves the record out of the history
Db_saveToProfile_Move(data) ==
  /\ LET written == saveToProfile(getSavedSnippets, data)
     IN lsSaved' = IF written = None THEN lsSaved ELSE written
  /\ lastOp' = Call("saveToProfile", data.id, Undefined, None, FALSE)
  /\ lsHistory' = Some(filterOut(getHistory, data.id))

\* mockDb.saveToProfile(data)
Db_saveToProfile(data) ==
  /\ LET written == saveToProfile(getSavedSnippets, data)
     IN lsSaved' = IF written = None THEN lsSaved ELSE written
  /\ lastOp' = Call("saveToProfile", data.id, Undefined, None, FALSE)
  /\ UNCHANGED lsHistory

\* updateProjectName that forgets the history
Db_updateProjectName_LibraryOnly(id, newName) ==
  /\ lsHistory' = Some(getHistory)
  /\ lsSaved' = Some(renameIn(getSavedSnippets, id, newName))
  /\ lastOp' = Call("updateProjectName", id, newName, None, FALSE)

\* mockDb.updateProjectName(id, newName)
Db_updateProjectName(id, newName) ==
  /\ lsHistory' = Some(renameIn(getHistory, id, newName))
  /\ lsSaved' = Some(renameIn(getSavedSnippets, id, newName))
  /\ lastOp' = Call("updateProjectName", id, newName, None, FALSE)

\* mockDb.deleteSnippet(id)
Db_deleteSnippet(id) ==
  /\ lsSaved' = Some(filterOut(getSavedSnippets, id))
  /\ lsHistory' = Some(filterOut(getHistory, id))
  /\ lastOp' = Call("deleteSnippet", id, Undefined, None, FALSE)

\* mockDb.getById(id)
Db_getById(id) ==
  /\ lastOp' = Call("getById", id, Undefined, getById(id), FALSE)
  /\ UNCHANGED <<lsHistory, lsSaved>>

\* a handler that makes no mockDb call
NoDbCall ==
  /\ lastOp' = [op |-> "none", id |-> Undefined, name |-> Undefined,
                ret |-> None, matched |-> 0, random |-> FALSE,
                error |-> "none"]
  /\ UNCHANGED <<lsHistory, lsSaved>>

\* the ids Math.random may give when data carries no id
FreshIds(data) == IF Falsy(data.id) THEN Ids ELSE {data.id}

(***************************************************************************)
(* Specification of the store under arbitrary calls                        *)
(***************************************************************************)
SaveToHistory(data) ==
  /\ Len(getHistory) < MaxHistory
  /\ \E fresh \in FreshIds(data) : Db_saveToHistory(data, fresh)
  /\ UNCHANGED <<pageVars, netVars>>

\* saveToHistory in the runs that watch the order of up to MaxOrder records
SaveInOrder(data) ==
  /\ Len(getHistory) < MaxOrder
  /\ \E fresh \in FreshIds(data) : Db_saveToHistory(data, fresh)
  /\ UNCHANGED <<pageVars, netVars>>

SaveToProfile(data) == Db_saveToProfile(data) /\ UNCHANGED <<pageVars, netVars>>

UpdateProjectName(id, newName) ==
  Db_updateProjectName(id, newName) /\ UNCHANGED <<pageVars, netVars>>

DeleteSnippet(id) == Db_deleteSnippet(id) /\ UNCHANGED <<pageVars, netVars>>

GetById(id) == Db_getById(id) /\ UNCHANGED <<pageVars, netVars>>

vars == <<lsHistory, lsSaved, lastOp, pageVars, netVars>>

InitStore ==
  /\ lsHistory = None
  /\ lsSaved = None
  /\ corrupt = {}
  /\ lastOp = [op |-> "none", id |-> Undefined, name |-> Undefined,
               ret |-> None, matched |-> 0, random |-> FALSE,
                error |-> "none"]

\* the optimizer page as it is first rendered
InitPage ==
  /\ route = "optimize"
  /\ optimizationResult = None
  /\ projectName = "New Session"
  /\ tempName = "New Session"
  /\ isRenaming = FALSE
  /\ isProcessing = FALSE
  /\ isSaving = FALSE
  /\ hasJustSaved = FALSE
  /\ pendingRun = None
  /\ pendingSave = None
  /\ shown = <<>>

(***************************************************************************)
(* The local pages: pages/OptimizePage, HistoryPage, ProfilePage           *)
(***************************************************************************)
\* what the user types into the title input
TypedNames == {"N1"}

\* String.prototype.trim on the values tempName takes
trim(s) == IF s = " " THEN "" ELSE s

\* tempName.trim() || 'Untitled Session'
finalName(name) == IF Falsy(trim(name)) THEN "Untitled Session" ELSE trim(name)

\* { ...finalData, id: existingId || Math.random()..., name: projectName }
resultWithId(finalData, existingId, fresh, name) ==
  [id |-> IF Falsy(existingId) THEN fresh ELSE existingId,
   name |-> name,
   run |-> finalData]

\* optimizationResult?.id
resultId(res) == IF res = None THEN Undefined ELSE res[1].id

\* The user leaves the optimizer page only when no optimizeWithAI call and no
\* save timer of the page is pending, so a callback always finds the page it
\* was started from.
NothingPending == pendingRun = None /\ pendingSave = None

\* a new OptimizePage is mounted with ?id=pid (Undefined: no parameter); the
\* effect on searchParams loads the session that getById finds
MountOptimizePage(pid) ==
  LET savedData == IF Falsy(pid) THEN None ELSE getById(pid)
      name == IF savedData = None THEN "New Session"
              ELSE IF Falsy(savedData[1].name) THEN DefaultName(pid)
              ELSE savedData[1].name
  IN /\ route' = "optimize"
     /\ optimizationResult' = savedData
     /\ projectName' = name
     /\ tempName' = name
     /\ isRenaming' = FALSE
     /\ isProcessing' = FALSE
     /\ isSaving' = FALSE
     /\ hasJustSaved' = FALSE
     /\ pendingRun' = None
     /\ pendingSave' = None
     /\ shown' = <<>>
     /\ IF Falsy(pid) THEN NoDbCall ELSE Db_getById(pid)
     /\ UNCHANGED netVars

\* the OptimizePage is replaced by the page of route r, which lists items
LeaveOptimizePage(r, items) ==
  /\ route # "login"
  /\ NothingPending
  /\ route' = r
  /\ optimizationResult' = None
  /\ projectName' = "New Session"
  /\ tempName' = "New Session"
  /\ isRenaming' = FALSE
  /\ isProcessing' = FALSE
  /\ isSaving' = FALSE
  /\ hasJustSaved' = FALSE
  /\ pendingRun' = None
  /\ pendingSave' = None
  /\ shown' = items
  /\ NoDbCall
  /\ UNCHANGED netVars

\* Layout: navigate('/optimize') from another page
NavOptimize ==
  /\ route \notin {"optimize", "login"}
  /\ MountOptimizePage(Undefined)

\* the /history route: HistoryPage mounts and fetchHistory runs
NavHistory ==
  /\ route # "history"
  /\ LeaveOptimizePage("history", getHistory)

\* Layout: navigate('/profile'): ProfilePage mounts and reads the library
NavProfile ==
  /\ route # "profile"
  /\ LeaveOptimizePage("profile", getSavedSnippets)

\* HistoryPage / ProfilePage: click on the i-th listed item
OpenSession(i) ==
  /\ route \in {"history", "profile"}
  /\ i \in 1..Len(shown)
  /\ MountOptimizePage(shown[i].id)

\* HistoryPage.handleDelete on the i-th listed item
HistoryHandleDelete(i) ==
  /\ route = "history"
  /\ i \in 1..Len(shown)
  /\ Db_deleteSnippet(shown[i].id)
  /\ shown' = getHistory'
  /\ UNCHANGED <<route, optimizationResult, projectName, tempName,
                 isRenaming, isProcessing, isSaving, hasJustSaved,
                 pendingRun, pendingSave>>
  /\ UNCHANGED netVars

\* ProfilePage.handleDeleteSnippet on the i-th listed item
ProfileHandleDeleteSnippet(i) ==
  /\ route = "profile"
  /\ i \in 1..Len(shown)
  /\ Db_deleteSnippet(shown[i].id)
  /\ shown' = getSavedSnippets'
  /\ UNCHANGED <<route, optimizationResult, projectName, tempName,
                 isRenaming, isProcessing, isSaving, hasJustSaved,
                 pendingRun, pendingSave>>
  /\ UNCHANGED netVars

\* OptimizePage: click on the title
TitleClick ==
  /\ route = "optimize"
  /\ ~isRenaming
  /\ tempName' = projectName
  /\ isRenaming' = TRUE
  /\ NoDbCall
  /\ UNCHANGED <<route, optimizationResult,
                 projectName, isProcessing, isSaving, hasJustSaved,
                 pendingRun, pendingSave, shown>>
  /\ UNCHANGED netVars

\* OptimizePage: onChange of the title input
TitleChange(name) ==
  /\ route = "optimize"
  /\ isRenaming
  /\ tempName' = name
  /\ NoDbCall
  /\ UNCHANGED <<route, optimizationResult,
                 projectName, isRenaming, isProcessing, isSaving,
                 hasJustSaved, pendingRun, pendingSave, shown>>
  /\ UNCHANGED netVars

\* OptimizePage: Escape in the title input
TitleEscape ==
  /\ route = "optimize"
  /\ isRenaming
  /\ tempName' = projectName
  /\ isRenaming' = FALSE
  /\ NoDbCall
  /\ UNCHANGED <<route, optimizationResult,
                 projectName, isProcessing, isSaving, hasJustSaved,
                 pendingRun, pendingSave, shown>>
  /\ UNCHANGED netVars

\* OptimizePage.handleRenameSubmit (Enter or blur of the title input)
HandleRenameSubmit ==
  /\ route = "optimize"
  /\ isRenaming
  /\ projectName' = finalName(tempName)
  /\ isRenaming' = FALSE
  /\ IF Falsy(resultId(optimizationResult))
     THEN NoDbCall
     ELSE Db_updateProjectName(resultId(optimizationResult),
                               finalName(tempName))
  /\ UNCHANGED <<route, optimizationResult, tempName, isProcessing,
                 isSaving, hasJustSaved, pendingRun, pendingSave, shown>>
  /\ UNCHANGED netVars

\* OptimizePage.handleRunOptimization at LEVEL_1: optimizeWithRules gives
\* finalData at once
HandleRunOptimizationRules(finalData) ==
  /\ route = "optimize"
  /\ ~isProcessing
  /\ Len(getHistory) < MaxHistory
  /\ \E fresh \in Ids :
       LET r == resultWithId(finalData, resultId(optimizationResult),
                             fresh, projectName)
       IN /\ optimizationResult' = Some(r)
          /\ Db_saveToHistory(r, fresh)
  /\ hasJustSaved' = FALSE
  /\ isProcessing' = FALSE
  /\ UNCHANGED <<route, projectName, tempName, isRenaming, isSaving,
                 pendingRun, pendingSave, shown>>
  /\ UNCHANGED netVars

\* OptimizePage.handleRunOptimization at LEVEL_2, up to the await: the call
\* keeps the id and the name of the render it was started from
HandleRunOptimizationAI ==
  /\ route = "optimize"
  /\ ~isProcessing
  /\ isProcessing' = TRUE
  /\ hasJustSaved' = FALSE
  /\ pendingRun' = Some([existingId |-> resultId(optimizationResult),
                         name |-> projectName])
  /\ NoDbCall
  /\ UNCHANGED <<route, optimizationResult,
                 projectName, tempName, isRenaming, isSaving, pendingSave,
                 shown>>
  /\ UNCHANGED netVars

\* optimizeWithAI resolves with finalData: the rest of handleRunOptimization
AIResolves(finalData) ==
  /\ pendingRun # None
  /\ Len(getHistory) < MaxHistory
  /\ pendingRun' = None
  /\ \E fresh \in Ids :
       LET r == resultWithId(finalData, pendingRun[1].existingId, fresh,
                             pendingRun[1].name)
       IN /\ optimizationResult' = Some(r)
          /\ Db_saveToHistory(r, fresh)
  /\ isProcessing' = FALSE
  /\ UNCHANGED <<route, projectName, tempName, isRenaming, isSaving,
                 hasJustSaved, pendingSave, shown>>
  /\ UNCHANGED netVars

\* optimizeWithAI rejects: only the finally block runs
AIRejects ==
  /\ pendingRun # None
  /\ pendingRun' = None
  /\ isProcessing' = FALSE
  /\ NoDbCall
  /\ UNCHANGED <<route, optimizationResult,
                 projectName, tempName, isRenaming, isSaving, hasJustSaved,
                 pendingSave, shown>>
  /\ UNCHANGED netVars

\* OptimizePage.handleSaveToProfile: the click starts the 600 ms timer, whose
\* callback keeps the optimizationResult of the render it was started from
HandleSaveToProfile ==
  /\ route = "optimize"
  /\ optimizationResult # None
  /\ ~isSaving /\ ~hasJustSaved
  /\ isSaving' = TRUE
  /\ pendingSave' = optimizationResult
  /\ NoDbCall
  /\ UNCHANGED <<route, optimizationResult,
                 projectName, tempName, isRenaming, isProcessing,
                 hasJustSaved, pendingRun, shown>>
  /\ UNCHANGED netVars

\* the 600 ms timer of handleSaveToProfile fires
SaveTimerFires ==
  /\ pendingSave # None
  /\ pendingSave' = None
  /\ Db_saveToProfile(pendingSave[1])
  /\ isSaving' = FALSE
  /\ hasJustSaved' = TRUE
  /\ UNCHANGED <<route, optimizationResult, projectName, tempName,
                 isRenaming, isProcessing, pendingRun, shown>>
  /\ UNCHANGED netVars

\* a 3 s timer started by SaveTimerFires runs setHasJustSaved(false)
JustSavedExpires ==
  /\ route = "optimize"
  /\ hasJustSaved
  /\ hasJustSaved' = FALSE
  /\ NoDbCall
  /\ UNCHANGED <<route, optimizationResult,
                 projectName, tempName, isRenaming, isProcessing, isSaving,
                 pendingRun, pendingSave, shown>>
  /\ UNCHANGED netVars

(***************************************************************************)
(* The networked optimizer page (components/OptimizePage): strings         *)
(***************************************************************************)
\* A change description is a sequence of characters.
\* NO_CHANGE_SENTINEL = 'no rule-based optimizations applicable'
NO_CHANGE_SENTINEL ==
  <<"n", "o", " ", "r", "u", "l", "e", "-", "b", "a", "s", "e", "d", " ",
    "o", "p", "t", "i", "m", "i", "z", "a", "t", "i", "o", "n", "s", " ",
    "a", "p", "p", "l", "i", "c", "a", "b", "l", "e">>

UpperCase ==
  <<"A", "B", "C", "D", "E", "F", "G", "H", "I", "J", "K", "L", "M", "N",
    "O", "P", "Q", "R", "S", "T", "U", "V", "W", "X", "Y", "Z">>

LowerCase ==
  <<"a", "b", "c", "d", "e", "f", "g", "h", "i", "j", "k", "l", "m", "n",
    "o", "p", "q", "r", "s", "t", "u", "v", "w", "x", "y", "z">>

\* one character of String.prototype.toLowerCase
lowerChar(ch) ==
  IF \E i \in 1..Len(UpperCase) : UpperCase[i] = ch
  THEN LowerCase[CHOOSE i \in 1..Len(UpperCase) : UpperCase[i] = ch]
  ELSE ch

\* one character of String.prototype.toUpperCase
upperChar(ch) ==
  IF \E i \in 1..Len(LowerCase) : LowerCase[i] = ch
  THEN UpperCase[CHOOSE i \in 1..Len(LowerCase) : LowerCase[i] = ch]
  ELSE ch

\* c.toLowerCase()
toLowerCase(c) == [i \in 1..Len(c) |-> lowerChar(c[i])]

\* c.toUpperCase()
toUpperCase(c) == [i \in 1..Len(c) |-> upperChar(c[i])]

\* c.includes(part)
includes(c, part) ==
  \E i \in 0..(Len(c) - Len(part)) : SubSeq(c, i + 1, i + Len(part)) = part

\* change descriptions that carry the sentinel phrase: as the constant spells
\* it, capitalised as the rule engine reports it, in upper case, and inside a
\* longer sentence
SentinelChanges ==
  { NO_CHANGE_SENTINEL,
    <<"N">> \o Tail(NO_CHANGE_SENTINEL),
    toUpperCase(NO_CHANGE_SENTINEL),
    <<"L", "1", ":", " ", "N">> \o Tail(NO_CHANGE_SENTINEL) \o <<".">> }

\* change descriptions that do not carry it: a real change, the phrase cut
\* short, the empty string
RealChanges ==
  {
    <<"R", "e", "p", "l", "a", "c", "e", "d", " ", "m", "a", "n", "u", "a",
      "l", " ", "l", "o", "o", "p", " ", "w", "i", "t", "h", " ", "b", "u",
      "i", "l", "t", "-", "i", "n", " ", "s", "u", "m">>,
    SubSeq(NO_CHANGE_SENTINEL, 1, 27),
    <<>> }

ChangeStrings == SentinelChanges \cup RealChanges

(***************************************************************************)
(* The networked optimizer page: values                                    *)
(***************************************************************************)
\* longest l1_changes list of a pipeline result
MaxChanges == 2

\* null in a string-valued field (savedSessionId, apiError, error)
NullStr == "<null>"

\* x is falsy, x being a string, undefined or null
FalsyStr(x) == x \in {Undefined, NullStr, ""}

\* an optional object or its default: x || d
OrElse(x, d) == IF x = None THEN d ELSE x[1]

\* a string or its default: x || d
StrOrElse(x, d) == IF FalsyStr(x) THEN d ELSE x

STARTER_CODE == "def fibonacci(n): ..."

\* ids of the sessions the gateway lists for the user
SessionIds == {"s1", "s2"}

\* error_report objects: {} and reports with findings and security entries
EmptyReport == [security |-> None, runtime_risks |-> None,
                optimization |-> None]

ErrorReports ==
  { EmptyReport,
    [EmptyReport EXCEPT !.optimization = Some([findings |-> Some(<<>>)])],
    [EmptyReport EXCEPT !.optimization = Some([findings |-> Some(<<"f1">>)])],
    [EmptyReport EXCEPT !.optimization = Some([findings |-> None])],
    [EmptyReport EXCEPT !.security = Some(<<"eval">>),
                        !.runtime_risks = Some(<<>>)] }

\* the l2 object the effect puts in when the session has none
DefaultL2 ==
  [winning_model |-> "", score |-> 0, confidence |-> 0, risk |-> "",
   changes_applied |-> Some(<<>>), additional_suggestions |-> Some(<<>>),
   ranked_models |-> Some(<<>>), syntax_valid |-> FALSE]

\* l2 objects: the default, a winner without and with applied changes, a
\* winner whose changes_applied is missing, changes without a winner
L2Objects ==
  { DefaultL2,
    [DefaultL2 EXCEPT !.winning_model = "gpt", !.syntax_valid = TRUE],
    [DefaultL2 EXCEPT !.winning_model = "gpt", !.syntax_valid = TRUE,
                      !.changes_applied = Some(<<"inlined helper">>)],
    [DefaultL2 EXCEPT !.winning_model = "gpt", !.changes_applied = None],
    [DefaultL2 EXCEPT !.changes_applied = Some(<<"inlined helper">>)] }

\* all sequences over S of length at most n
SeqUpTo(S, n) == UNION {[1..k -> S] : k \in 0..n}

\* a PipelineResult as /api/analyse returns it
PipelineResult(l1, l2, report, error) ==
  [passed_error_check |-> TRUE, passed_complexity |-> TRUE,
   optimization_ran |-> TRUE, error_report |-> report,
   original_analysis |-> "A1", optimized_analysis |-> "A2",
   original_code |-> STARTER_CODE, optimized_code |-> "optimized",
   optimization_level |-> "level1", l1_changes |-> l1, l2 |-> l2,
   error |-> error]

\* the results /api/analyse may return: every change list up to MaxChanges
\* or none, every l2 object or none, every error report or none
PipelineResults ==
  { PipelineResult(l1, l2, report, NullStr) :
      l1 \in {None} \cup {Some(c) : c \in SeqUpTo(ChangeStrings, MaxChanges)},
      l2 \in {None} \cup {Some(o) : o \in L2Objects},
      report \in {None} \cup {Some(e) : e \in ErrorReports} }

\* the results the page is run with next to the hand-off: a real change, the
\* sentinel alone, and a result that reports an error
SampleResults ==
  { PipelineResult(Some(<<CHOOSE c \in RealChanges : Len(c) > 30>>),
                   Some(DefaultL2), Some(EmptyReport), NullStr),
    PipelineResult(Some(<<NO_CHANGE_SENTINEL>>),
                   Some(DefaultL2), Some(EmptyReport), NullStr),
    PipelineResult(None, None, None, "Syntax error") }

\* a session object as the hand-off slot may hold it: complete, complete
\* but for an l2 object that lacks its lists, without the analysis, with the
\* id alone
Session(id, shape) ==
  [id |-> id,
   name |-> IF shape = "bare" THEN Undefined ELSE "Saved",
   original_code |-> IF shape = "bare" THEN Undefined ELSE "code1",
   optimized_code |-> IF shape = "bare" THEN Undefined ELSE "opt1",
   original_analysis |-> IF shape \in {"full", "partial"} THEN "A1"
                         ELSE Undefined,
   optimized_analysis |-> Undefined,
   optimization_level |-> IF shape \in {"full", "partial"} THEN "level2"
                          ELSE Undefined,
   error_report |-> None,
   l1_changes |-> IF shape = "full" THEN Some(<<NO_CHANGE_SENTINEL>>)
                  ELSE None,
   l2 |-> IF shape = "partial"
          THEN Some([DefaultL2 EXCEPT !.winning_model = "gpt",
                                      !.changes_applied = None,
                                      !.additional_suggestions = None,
                                      !.ranked_models = None])
          ELSE None]

SessionObjects ==
  { Session(id, shape) : id \in SessionIds \cup {Undefined},
                         shape \in {"full", "partial", "noanalysis", "bare"} }

\* what localStorage may hold under 'opticode_open_session': the empty
\* string, text that is not JSON, the text 'null', the JSON of an object
RawValues ==
  { [kind |-> k, obj |-> None] : k \in {"empty", "garbage", "null"} }
    \cup { [kind |-> "object", obj |-> Some(o)] : o \in SessionObjects }

\* JSON.parse(stored): it throws on text that is not JSON
JSONparse(raw) ==
  [throws |-> raw.kind \in {"empty", "garbage"},
   value |-> IF raw.kind = "object" THEN raw.obj ELSE None]

(***************************************************************************)
(* The networked optimizer page: result classification                     *)
(***************************************************************************)
\* hasRealL1Changes compared without toLowerCase
hasRealL1Changes_CaseSensitive(changes) ==
  IF changes = None \/ Len(OrElse(changes, <<>>)) = 0 THEN FALSE
  ELSE ~(\A i \in 1..Len(changes[1]) :
           includes(changes[1][i], NO_CHANGE_SENTINEL))

\* hasRealL1Changes(changes), changes being None or Some(list)
hasRealL1Changes(changes) ==
  IF changes = None \/ Len(OrElse(changes, <<>>)) = 0 THEN FALSE
  ELSE ~(\A i \in 1..Len(changes[1]) :
           includes(toLowerCase(changes[1][i]), NO_CHANGE_SENTINEL))

\* hasRealL2 that looks at the winning model alone
hasRealL2_WinnerOnly(l2) ==
  /\ l2 # None
  /\ ~FalsyStr(l2[1].winning_model)

\* hasRealL2(l2), l2 being None or Some(object)
hasRealL2(l2) ==
  /\ l2 # None
  /\ ~FalsyStr(l2[1].winning_model)
  /\ Len(OrElse(l2[1].changes_applied, <<>>)) > 0

\* result?.l1_changes
resultL1Changes == IF result = None THEN None ELSE result[1].l1_changes

\* result?.error_report
resultReport == IF result = None THEN None ELSE result[1].error_report

hasSecurityIssues ==
  /\ resultReport # None
  /\ Len(OrElse(resultReport[1].security, <<>>)) > 0

hasRuntimeRisks ==
  /\ resultReport # None
  /\ Len(OrElse(resultReport[1].runtime_risks, <<>>)) > 0

realL1Changes ==
  IF result = None THEN FALSE ELSE hasRealL1Changes(result[1].l1_changes)

\* alreadyOptimal without the test of the length
alreadyOptimal_NoLength == result # None /\ ~realL1Changes

alreadyOptimal ==
  /\ Len(OrElse(resultL1Changes, <<>>)) > 0
  /\ ~realL1Changes

realL2 == IF result = None THEN FALSE ELSE hasRealL2(result[1].l2)

hasFindings ==
  /\ resultReport # None
  /\ resultReport[1].optimization # None
  /\ Len(OrElse(resultReport[1].optimization[1].findings, <<>>)) > 0

hasAnyExplanation == realL1Changes \/ realL2 \/ hasFindings \/ alreadyOptimal

(***************************************************************************)
(* The networked optimizer page: handlers                                  *)
(***************************************************************************)
localVars == <<lsHistory, lsSaved, lastOp, corrupt, pageVars, appVars>>

gwVars == <<netIsSaving, remote, pendingCreate, pendingDelete, sessions,
            sessionsError, lastCall>>

\* the requests and the rename state of the optimizer page
optVars == <<pendingAnalyse, savedFor, netIsRenaming, renameCancelledRef>>

\* the state of an OptimizePage that has just been mounted
InitNet ==
  /\ netRoute = "optimize"
  /\ sessionParam = Undefined
  /\ openSession = None
  /\ effect = "pending"
  /\ mountedBy = "login"
  /\ consumed = Undefined
  /\ uncaught = FALSE
  /\ userCode = STARTER_CODE
  /\ result = None
  /\ netProjectName = "New Session"
  /\ netTempName = "New Session"
  /\ savedSessionId = NullStr
  /\ netIsProcessing = FALSE
  /\ saveStatus = "idle"
  /\ apiError = NullStr
  /\ netIsSaving = FALSE
  /\ remote = {}
  /\ pendingCreate = None
  /\ pendingDelete = None
  /\ sessions = None
  /\ sessionsError = NullStr
  /\ lastCall = [op |-> "none", ok |-> TRUE]
  /\ pendingAnalyse = FALSE
  /\ savedFor = None
  /\ netIsRenaming = FALSE
  /\ renameCancelledRef = FALSE

\* useState initial values of OptimizePage
FreshOptimizePage ==
  /\ userCode' = STARTER_CODE
  /\ result' = None
  /\ netProjectName' = "New Session"
  /\ netTempName' = "New Session"
  /\ savedSessionId' = NullStr
  /\ netIsProcessing' = FALSE
  /\ saveStatus' = "idle"
  /\ apiError' = NullStr
  /\ pendingAnalyse' = FALSE
  /\ savedFor' = None
  /\ netIsRenaming' = FALSE
  /\ renameCancelledRef' = FALSE

\* the user acts on a page once its effects have run; the page is left only
\* when no /api/analyse and no create request of it is in flight
Settled == effect # "pending" /\ ~netIsProcessing /\ pendingCreate = None

\* Layout: navigate('/profile')
NetNavProfile ==
  /\ netRoute = "optimize"
  /\ Settled
  /\ netRoute' = "profile"
  /\ sessionParam' = Undefined
  /\ effect' = "idle"
  /\ FreshOptimizePage
  /\ sessions' = None
  /\ sessionsError' = NullStr
  /\ UNCHANGED <<openSession, mountedBy, consumed, uncaught, localVars,
                 netIsSaving, remote, pendingCreate, pendingDelete, lastCall>>

\* ProfilePage.handleOpenSession(session): navigate(`/optimize?session=${id}`)
HandleOpenSession(id) ==
  /\ netRoute = "profile"
  /\ netRoute' = "optimize"
  /\ sessionParam' = id
  /\ effect' = "pending"
  /\ mountedBy' = "handleOpenSession"
  /\ FreshOptimizePage
  /\ UNCHANGED <<openSession, consumed, uncaught, localVars,
                 gwVars>>

\* ProfilePage 'Go to Optimizer' and Layout: navigate('/optimize')
NetNavOptimize ==
  /\ netRoute = "profile" \/ (Settled /\ sessionParam # Undefined)
  /\ netRoute' = "optimize"
  /\ sessionParam' = Undefined
  /\ effect' = "pending"
  /\ mountedBy' = "navigate"
  /\ IF netRoute = "profile" THEN FreshOptimizePage
     ELSE UNCHANGED <<userCode, result, netProjectName, netTempName,
                      savedSessionId, netIsProcessing, saveStatus, apiError,
                      optVars>>
  /\ UNCHANGED <<openSession, consumed, uncaught, localVars,
                 gwVars>>

\* the browser loads an optimizer URL (a reload, a bookmark, a typed URL):
\* searchParams.get('session') is null, '' or an id
LoadUrl(param) ==
  /\ effect # "pending"
  /\ netRoute' = "optimize"
  /\ sessionParam' = param
  /\ effect' = "pending"
  /\ mountedBy' = "url"
  /\ FreshOptimizePage
  /\ UNCHANGED <<openSession, consumed, uncaught, localVars,
                 gwVars>>

\* a script of the origin, in this or another tab, sets or removes the
\* 'opticode_open_session' key
StorageSetOpenSession(stored) ==
  /\ stored # openSession
  /\ openSession' = stored
  /\ consumed' = Undefined
  /\ UNCHANGED <<netRoute, sessionParam, effect, mountedBy, uncaught,
                 userCode, result, netProjectName, netTempName,
                 savedSessionId, netIsProcessing, saveStatus, apiError,
                 localVars, optVars,
                 gwVars>>

\* the PipelineResult the effect builds from the session object
HydratedResult(session) ==
  [passed_error_check |-> TRUE, passed_complexity |-> TRUE,
   optimization_ran |-> TRUE,
   error_report |-> Some(OrElse(session.error_report, EmptyReport)),
   original_analysis |-> session.original_analysis,
   optimized_analysis |-> StrOrElse(session.optimized_analysis,
                                    session.original_analysis),
   original_code |-> StrOrElse(session.original_code, ""),
   optimized_code |-> StrOrElse(session.optimized_code, ""),
   optimization_level |-> StrOrElse(session.optimization_level, "level1"),
   l1_changes |-> Some(OrElse(session.l1_changes, <<>>)),
   l2 |-> Some(OrElse(session.l2, DefaultL2)),
   error |-> NullStr]

\* the outcome when the id of the session is not compared with the URL
EffectOutcome_NoIdTest ==
  IF FalsyStr(sessionParam) THEN "no-param"
  ELSE IF openSession = None \/ OrElse(openSession, [kind |-> ""]).kind = "empty"
       THEN "no-slot"
  ELSE IF JSONparse(openSession[1]).throws THEN "caught"
  ELSE IF JSONparse(openSession[1]).value = None THEN "caught"
  ELSE "hydrated"

\* how the load-session effect ends in the current state
EffectOutcome ==
  IF FalsyStr(sessionParam) THEN "no-param"
  ELSE IF openSession = None \/ OrElse(openSession, [kind |-> ""]).kind = "empty"
       THEN "no-slot"
  ELSE IF JSONparse(openSession[1]).throws THEN "caught"
  ELSE IF JSONparse(openSession[1]).value = None THEN "caught"
  ELSE IF JSONparse(openSession[1]).value[1].id = sessionParam THEN "hydrated"
  ELSE "mismatch"

\* the effect that hydrates and leaves the slot in place
LoadSessionEffect_KeepSlot ==
  /\ effect = "pending"
  /\ effect' = EffectOutcome
  /\ IF EffectOutcome = "hydrated"
     THEN LET session == JSONparse(openSession[1]).value[1] IN
          /\ userCode' = StrOrElse(session.original_code, "")
          /\ netProjectName' = StrOrElse(session.name, "Loaded Session")
          /\ netTempName' = StrOrElse(session.name, "Loaded Session")
          /\ savedSessionId' = session.id
          /\ result' = IF FalsyStr(session.original_analysis) THEN result
                       ELSE Some(HydratedResult(session))
          /\ consumed' = session.id
          /\ savedFor' = result'
     ELSE UNCHANGED <<userCode, netProjectName, netTempName, savedSessionId,
                      result, consumed, savedFor>>
  /\ UNCHANGED <<netRoute, sessionParam, openSession, mountedBy, uncaught,
                 netIsProcessing, saveStatus, apiError, localVars, pendingAnalyse,
                 netIsRenaming, renameCancelledRef,
                 gwVars>>

\* OptimizePage: the effect on searchParams ("Load session from URL")
LoadSessionEffect ==
  /\ effect = "pending"
  /\ effect' = EffectOutcome
  /\ IF EffectOutcome = "hydrated"
     THEN LET session == JSONparse(openSession[1]).value[1] IN
          /\ userCode' = StrOrElse(session.original_code, "")
          /\ netProjectName' = StrOrElse(session.name, "Loaded Session")
          /\ netTempName' = StrOrElse(session.name, "Loaded Session")
          /\ savedSessionId' = session.id
          /\ result' = IF FalsyStr(session.original_analysis) THEN result
                       ELSE Some(HydratedResult(session))
          /\ openSession' = None
          /\ consumed' = session.id
          /\ savedFor' = result'
     ELSE UNCHANGED <<userCode, netProjectName, netTempName, savedSessionId,
                      result, openSession, consumed, savedFor>>
  /\ UNCHANGED <<netRoute, sessionParam, mountedBy, uncaught,
                 netIsProcessing, saveStatus, apiError, localVars, pendingAnalyse,
                 netIsRenaming, renameCancelledRef,
                 gwVars>>

\* OptimizePage: the Clear button of the editor
ClearCode ==
  /\ netRoute = "optimize"
  /\ Settled
  /\ userCode # ""
  /\ userCode' = ""
  /\ effect' = "idle"
  /\ UNCHANGED <<netRoute, sessionParam, openSession, mountedBy, consumed,
                 uncaught, result, netProjectName, netTempName,
                 savedSessionId, netIsProcessing, saveStatus, apiError,
                 localVars, optVars,
                 gwVars>>

\* OptimizePage.handleRun up to the await of runAnalysis
HandleRun ==
  /\ netRoute = "optimize"
  /\ effect # "pending"
  /\ ~netIsProcessing
  /\ ~FalsyStr(trim(userCode))
  /\ netIsProcessing' = TRUE
  /\ apiError' = NullStr
  /\ result' = None
  /\ savedSessionId' = NullStr
  /\ saveStatus' = "idle"
  /\ effect' = "idle"
  /\ pendingAnalyse' = TRUE
  /\ savedFor' = None
  /\ UNCHANGED <<netRoute, sessionParam, openSession, mountedBy, consumed,
                 uncaught, userCode, netProjectName, netTempName, localVars,
                 netIsRenaming, renameCancelledRef,
                 gwVars>>

\* runAnalysis resolves with data: the rest of handleRun
RunResolves(data) ==
  /\ pendingAnalyse
  /\ pendingAnalyse' = FALSE
  /\ result' = Some(data)
  /\ apiError' = IF FalsyStr(data.error) THEN apiError ELSE data.error
  /\ netIsProcessing' = FALSE
  /\ UNCHANGED <<netRoute, sessionParam, openSession, effect, mountedBy,
                 consumed, uncaught, userCode, netProjectName, netTempName,
                 savedSessionId, saveStatus, localVars,
                 savedFor, netIsRenaming, renameCancelledRef,
                 gwVars>>

\* handleRun without its finally block
RunRejects_NoFinally ==
  /\ pendingAnalyse
  /\ pendingAnalyse' = FALSE
  /\ apiError' = "Server error: 500"
  /\ UNCHANGED <<netRoute, sessionParam, openSession, effect, mountedBy,
                 consumed, uncaught, userCode, result, netProjectName,
                 netTempName, savedSessionId, saveStatus, localVars,
                 netIsProcessing, savedFor, netIsRenaming,
                 renameCancelledRef, gwVars>>

\* runAnalysis rejects: the catch and finally blocks of handleRun
RunRejects ==
  /\ pendingAnalyse
  /\ pendingAnalyse' = FALSE
  /\ apiError' = "Server error: 500"
  /\ netIsProcessing' = FALSE
  /\ UNCHANGED <<netRoute, sessionParam, openSession, effect, mountedBy,
                 consumed, uncaught, userCode, result, netProjectName,
                 netTempName, savedSessionId, saveStatus, localVars,
                 savedFor, netIsRenaming, renameCancelledRef,
                 gwVars>>

(***************************************************************************)
(* The Remote Session Gateway: saving, renaming, listing and deleting      *)
(* sessions from the networked optimizer and profile pages.  The user is   *)
(* logged in: getLoggedInUser and getStoredUser give an email.             *)
(***************************************************************************)
\* the ids of the sessions the gateway holds
RemoteIds == {s.id : s \in remote}

\* the gateway's sessions after PATCH /api/sessions/item/<id> { name }
RenameRemote(id, name) ==
  {IF s.id = id THEN [s EXCEPT !.name = name] ELSE s : s \in remote}

\* OptimizePage.handleSave up to the await of saveSessionToDB
HandleSave ==
  /\ netRoute = "optimize"
  /\ effect # "pending"
  /\ result # None
  /\ ~netIsSaving
  /\ netIsSaving' = TRUE
  /\ saveStatus' = "idle"
  /\ pendingCreate' = Some([name |-> netProjectName, result |-> result[1]])
  /\ UNCHANGED <<netRoute, sessionParam, openSession, effect, mountedBy,
                 consumed, uncaught, userCode, result, netProjectName,
                 netTempName, savedSessionId, netIsProcessing, apiError,
                 remote, pendingDelete, sessions, sessionsError, lastCall,
                 localVars, optVars>>

\* POST /api/sessions succeeds: the gateway creates the session under an id
\* of its own and handleSave goes on after the await
CreateResolves(id) ==
  /\ pendingCreate # None
  /\ id \notin RemoteIds
  /\ remote' = remote \cup {[id |-> id, name |-> pendingCreate[1].name]}
  /\ savedSessionId' = id
  /\ savedFor' = Some(pendingCreate[1].result)
  /\ saveStatus' = "saved"
  /\ netIsSaving' = FALSE
  /\ pendingCreate' = None
  /\ lastCall' = [op |-> "create", ok |-> TRUE]
  /\ UNCHANGED <<netRoute, sessionParam, openSession, effect, mountedBy,
                 consumed, uncaught, userCode, result, netProjectName,
                 netTempName, netIsProcessing, apiError, pendingDelete,
                 sessions, sessionsError, localVars,
                 pendingAnalyse, netIsRenaming, renameCancelledRef>>

\* a failing save that forgets the id of the save before
CreateRejects_DropId ==
  /\ pendingCreate # None
  /\ apiError' = "Could not save session."
  /\ saveStatus' = "error"
  /\ netIsSaving' = FALSE
  /\ pendingCreate' = None
  /\ lastCall' = [op |-> "create", ok |-> FALSE]
  /\ savedSessionId' = NullStr
  /\ UNCHANGED <<netRoute, sessionParam, openSession, effect, mountedBy,
                 consumed, uncaught, userCode, result, netProjectName,
                 netTempName, netIsProcessing, remote,
                 pendingDelete, sessions, sessionsError, localVars, optVars>>

\* the POST fails or answers with an error status: the catch and finally
\* blocks of handleSave
CreateRejects ==
  /\ pendingCreate # None
  /\ apiError' = "Could not save session."
  /\ saveStatus' = "error"
  /\ netIsSaving' = FALSE
  /\ pendingCreate' = None
  /\ lastCall' = [op |-> "create", ok |-> FALSE]
  /\ UNCHANGED <<netRoute, sessionParam, openSession, effect, mountedBy,
                 consumed, uncaught, userCode, result, netProjectName,
                 netTempName, savedSessionId, netIsProcessing, remote,
                 pendingDelete, sessions, sessionsError, localVars, optVars>>

\* setTimeout(() => setSaveStatus('idle'), 3000)
SaveStatusTimer ==
  /\ saveStatus \in {"saved", "error"}
  /\ saveStatus' = "idle"
  /\ UNCHANGED <<netRoute, sessionParam, openSession, effect, mountedBy,
                 consumed, uncaught, userCode, result, netProjectName,
                 netTempName, savedSessionId, netIsProcessing, apiError,
                 gwVars, localVars, optVars>>

\* OptimizePage: onChange of the title input
NetTitleChange(name) ==
  /\ netRoute = "optimize"
  /\ effect # "pending"
  /\ netIsRenaming
  /\ netTempName # name
  /\ netTempName' = name
  /\ UNCHANGED <<netRoute, sessionParam, openSession, effect, mountedBy,
                 consumed, uncaught, userCode, result, netProjectName,
                 savedSessionId, netIsProcessing, saveStatus, apiError,
                 gwVars, localVars, optVars>>

\* a click on the title that leaves the cancellation mark as it is
NetTitleClick_KeepRef ==
  /\ netRoute = "optimize"
  /\ effect # "pending"
  /\ ~netIsRenaming
  /\ netTempName' = netProjectName
  /\ netIsRenaming' = TRUE
  /\ UNCHANGED <<netRoute, sessionParam, openSession, effect, mountedBy,
                 consumed, uncaught, userCode, result, netProjectName,
                 savedSessionId, netIsProcessing, saveStatus, apiError,
                 gwVars, localVars, pendingAnalyse, savedFor,
                 renameCancelledRef>>

\* OptimizePage: a click on the title
NetTitleClick ==
  /\ netRoute = "optimize"
  /\ effect # "pending"
  /\ ~netIsRenaming
  /\ renameCancelledRef' = FALSE
  /\ netTempName' = netProjectName
  /\ netIsRenaming' = TRUE
  /\ UNCHANGED <<netRoute, sessionParam, openSession, effect, mountedBy,
                 consumed, uncaught, userCode, result, netProjectName,
                 savedSessionId, netIsProcessing, saveStatus, apiError,
                 gwVars, localVars, pendingAnalyse, savedFor>>

\* OptimizePage.commitRename(tempName); ok tells whether the PATCH it may
\* send succeeds (a failure is caught and dropped)
CommitRename(ok) ==
  /\ netProjectName' = finalName(netTempName)
  /\ netIsRenaming' = FALSE
  /\ IF FalsyStr(savedSessionId)
     THEN ok /\ UNCHANGED <<remote, lastCall>>
     ELSE /\ remote' = IF ok THEN RenameRemote(savedSessionId,
                                               finalName(netTempName))
                       ELSE remote
          /\ lastCall' = [op |-> "rename", ok |-> ok]
  /\ UNCHANGED <<netRoute, sessionParam, openSession, effect, mountedBy,
                 consumed, uncaught, userCode, result, netTempName,
                 savedSessionId, netIsProcessing, saveStatus, apiError,
                 netIsSaving, pendingCreate, pendingDelete, sessions,
                 sessionsError, localVars, pendingAnalyse, savedFor>>

\* OptimizePage.handleRenameKeyDown in the title input: Enter commits
\* tempName, Escape takes the name of the page back and marks the rename as
\* cancelled; another key does nothing
HandleRenameKeyDown(key, ok) ==
  /\ netRoute = "optimize"
  /\ effect # "pending"
  /\ netIsRenaming
  /\ IF key = "Enter"
     THEN renameCancelledRef' = FALSE /\ CommitRename(ok)
     ELSE /\ ok
          /\ renameCancelledRef' = TRUE
          /\ netTempName' = netProjectName
          /\ netIsRenaming' = FALSE
          /\ UNCHANGED <<netRoute, sessionParam, openSession, effect,
                         mountedBy, consumed, uncaught, userCode, result,
                         netProjectName, savedSessionId, netIsProcessing,
                         saveStatus, apiError, gwVars, localVars,
                         pendingAnalyse, savedFor>>

\* OptimizePage.handleRenameBlur: the blur of the title input while the
\* user renames, or the blur the browser may raise when the input that had
\* the focus is removed after Escape
HandleRenameBlur(ok) ==
  /\ netRoute = "optimize"
  /\ effect # "pending"
  /\ netIsRenaming \/ renameCancelledRef
  /\ IF renameCancelledRef
     THEN /\ ok
          /\ renameCancelledRef' = FALSE
          /\ UNCHANGED <<netRoute, sessionParam, openSession, effect,
                         mountedBy, consumed, uncaught, userCode, result,
                         netProjectName, netTempName, savedSessionId,
                         netIsProcessing, saveStatus, apiError, gwVars,
                         localVars, pendingAnalyse, savedFor, netIsRenaming>>
     ELSE CommitRename(ok) /\ UNCHANGED renameCancelledRef

\* ProfilePage: the effect that loads the sessions of the user
FetchSessions(ok) ==
  /\ netRoute = "profile"
  /\ sessions = None
  /\ sessionsError = NullStr
  /\ sessions' = IF ok THEN Some(remote) ELSE Some({})
  /\ sessionsError' = IF ok THEN NullStr ELSE "Could not load sessions."
  /\ lastCall' = [op |-> "list", ok |-> ok]
  /\ UNCHANGED <<netRoute, sessionParam, openSession, effect, mountedBy,
                 consumed, uncaught, userCode, result, netProjectName,
                 netTempName, savedSessionId, netIsProcessing, saveStatus,
                 apiError, netIsSaving, remote, pendingCreate, pendingDelete,
                 localVars, optVars>>

\* ProfilePage.handleDeleteSession(id) up to the await of the DELETE
HandleDeleteSession(id) ==
  /\ netRoute = "profile"
  /\ sessions # None
  /\ pendingDelete = None
  /\ \E s \in OrElse(sessions, {}) : s.id = id
  /\ sessions' = Some({s \in sessions[1] : s.id # id})
  /\ pendingDelete' = Some(id)
  /\ UNCHANGED <<netRoute, sessionParam, openSession, effect, mountedBy,
                 consumed, uncaught, userCode, result, netProjectName,
                 netTempName, savedSessionId, netIsProcessing, saveStatus,
                 apiError, netIsSaving, remote, pendingCreate, sessionsError,
                 lastCall, localVars, optVars>>

\* the DELETE completes: the gateway removes the session when ok, and
\* handleDeleteSession ends either way without touching the page
DeleteCompletes(ok) ==
  /\ pendingDelete # None
  /\ remote' = IF ok THEN {s \in remote : s.id # pendingDelete[1]} ELSE remote
  /\ pendingDelete' = None
  /\ lastCall' = [op |-> "delete", ok |-> ok]
  /\ UNCHANGED <<netRoute, sessionParam, openSession, effect, mountedBy,
                 consumed, uncaught, userCode, result, netProjectName,
                 netTempName, savedSessionId, netIsProcessing, saveStatus,
                 apiError, netIsSaving, pendingCreate, sessions,
                 sessionsError, localVars, optVars>>

(***************************************************************************)
(* mockDb on a localStorage that may fail: the text under a key may not be *)
(* JSON, so that JSON.parse throws a SyntaxError, and setItem may throw a  *)
(* QuotaExceededError.  No call of mockDb catches either.                  *)
(***************************************************************************)
\* the records the calls are made with
FaultData == [id : Ids, name : Names, run : {1}]

\* the call op ends by throwing error
Throw(op, id, name, error) ==
  lastOp' = [Call(op, id, name, None, FALSE) EXCEPT !.error = error]

\* something outside mockDb leaves text that is not JSON under the key
CorruptKey(key) ==
  /\ key \notin corrupt
  /\ corrupt' = corrupt \cup {key}
  /\ lsHistory' = IF key = "history" THEN None ELSE lsHistory
  /\ lsSaved' = IF key = "saved" THEN None ELSE lsSaved
  /\ lastOp' = [Call("none", Undefined, Undefined, None, FALSE)
                  EXCEPT !.matched = 0]
  /\ UNCHANGED <<pageVars, netPageVars, appVars>>

\* mockDb.getHistory ("history") and mockDb.getSavedSnippets ("saved")
TryList(key) ==
  /\ IF key \in corrupt
     THEN Throw(key, Undefined, Undefined, "SyntaxError")
     ELSE lastOp' = [Call(key, Undefined, Undefined, None, FALSE)
                       EXCEPT !.matched = 0]
  /\ UNCHANGED <<lsHistory, lsSaved, pageVars, netVars>>

\* mockDb.saveToHistory(data); writeFails: setItem throws
TrySaveToHistory(data, writeFails) ==
  /\ Len(getHistory) < MaxHistory
  /\ IF "history" \in corrupt
     THEN /\ Throw("saveToHistory", data.id, data.name, "SyntaxError")
          /\ UNCHANGED <<lsHistory, lsSaved>>
     ELSE IF writeFails
     THEN /\ Throw("saveToHistory", data.id, data.name, "QuotaExceededError")
          /\ UNCHANGED <<lsHistory, lsSaved>>
     ELSE \E fresh \in FreshIds(data) : Db_saveToHistory(data, fresh)
  /\ UNCHANGED <<pageVars, netVars>>

\* mockDb.saveToProfile(data); writeFails: setItem throws
TrySaveToProfile(data, writeFails) ==
  /\ IF "saved" \in corrupt
     THEN /\ Throw("saveToProfile", data.id, Undefined, "SyntaxError")
          /\ UNCHANGED <<lsHistory, lsSaved>>
     ELSE IF writeFails /\ saveToProfile(getSavedSnippets, data) # None
     THEN /\ Throw("saveToProfile", data.id, Undefined, "QuotaExceededError")
          /\ UNCHANGED <<lsHistory, lsSaved>>
     ELSE Db_saveToProfile(data)
  /\ UNCHANGED <<pageVars, netVars>>

\* mockDb.updateProjectName(id, newName); failAt: the setItem call that
\* throws, the first, the second or none (0)
TryUpdateProjectName(id, newName, failAt) ==
  /\ IF "history" \in corrupt
     THEN /\ Throw("updateProjectName", id, newName, "SyntaxError")
          /\ UNCHANGED <<lsHistory, lsSaved>>
     ELSE IF failAt = 1
     THEN /\ Throw("updateProjectName", id, newName, "QuotaExceededError")
          /\ UNCHANGED <<lsHistory, lsSaved>>
     ELSE IF "saved" \in corrupt \/ failAt = 2
     THEN /\ lsHistory' = Some(renameIn(getHistory, id, newName))
          /\ Throw("updateProjectName", id, newName,
                   IF "saved" \in corrupt THEN "SyntaxError"
                   ELSE "QuotaExceededError")
          /\ UNCHANGED lsSaved
     ELSE Db_updateProjectName(id, newName)
  /\ UNCHANGED <<pageVars, netVars>>

\* mockDb.deleteSnippet(id); failAt: the setItem call that throws, the
\* first, the second or none (0)
TryDeleteSnippet(id, failAt) ==
  /\ IF "saved" \in corrupt
     THEN /\ Throw("deleteSnippet", id, Undefined, "SyntaxError")
          /\ UNCHANGED <<lsHistory, lsSaved>>
     ELSE IF failAt = 1
     THEN /\ Throw("deleteSnippet", id, Undefined, "QuotaExceededError")
          /\ UNCHANGED <<lsHistory, lsSaved>>
     ELSE IF "history" \in corrupt \/ failAt = 2
     THEN /\ lsSaved' = Some(filterOut(getSavedSnippets, id))
          /\ Throw("deleteSnippet", id, Undefined,
                   IF "history" \in corrupt THEN "SyntaxError"
                   ELSE "QuotaExceededError")
          /\ UNCHANGED lsHistory
     ELSE Db_deleteSnippet(id)
  /\ UNCHANGED <<pageVars, netVars>>

\* mockDb.getById(id)
TryGetById(id) ==
  /\ IF corrupt # {}
     THEN Throw("getById", id, Undefined, "SyntaxError")
          /\ UNCHANGED <<lsHistory, lsSaved>>
     ELSE Db_getById(id)
  /\ UNCHANGED <<pageVars, netVars>>

(***************************************************************************)
(* The local pages next to another tab of the same origin.  A write of the *)
(* other tab to localStorage raises a 'storage' event in this tab, and the *)
(* only listener for it is checkLoginStatus of App.                        *)
(***************************************************************************)
\* the user is logged in when App is first rendered
InitApp ==
  /\ lsUserName = "user"
  /\ currentUserName = "user"

\* the route r is rendered with a page that has just been mounted
FreshPage(r) ==
  /\ route' = r
  /\ optimizationResult' = None
  /\ projectName' = "New Session"
  /\ tempName' = "New Session"
  /\ isRenaming' = FALSE
  /\ isProcessing' = FALSE
  /\ isSaving' = FALSE
  /\ hasJustSaved' = FALSE
  /\ pendingRun' = None
  /\ pendingSave' = None
  /\ shown' = <<>>

\* App.checkLoginStatus, the listener of the 'storage' event, and the render
\* that follows: ProtectedPage redirects to /login when there is no user,
\* and the page that is mounted stays as it is otherwise
checkLoginStatus ==
  /\ currentUserName' = lsUserName'
  /\ IF lsUserName' = NullStr /\ route # "login"
     THEN FreshPage("login")
     ELSE UNCHANGED pageVars

\* the other tab calls mockDb.deleteSnippet(id)
OtherTabDeleteSnippet(id) ==
  /\ Db_deleteSnippet(id)
  /\ UNCHANGED lsUserName
  /\ checkLoginStatus
  /\ UNCHANGED <<netPageVars, corrupt>>

\* the other tab calls mockDb.updateProjectName(id, newName)
OtherTabUpdateProjectName(id, newName) ==
  /\ Db_updateProjectName(id, newName)
  /\ UNCHANGED lsUserName
  /\ checkLoginStatus
  /\ UNCHANGED <<netPageVars, corrupt>>

\* the other tab calls mockAuth.logout(), while no callback of this tab's
\* optimizer page is pending
OtherTabLogout ==
  /\ lsUserName # NullStr
  /\ NothingPending
  /\ lsUserName' = NullStr
  /\ checkLoginStatus
  /\ NoDbCall
  /\ UNCHANGED <<netPageVars, corrupt>>

\* Layout.handleLogout: mockAuth.logout(), onLogout(), navigate('/login')
HandleLogout ==
  /\ route # "login"
  /\ NothingPending
  /\ lsUserName' = NullStr
  /\ currentUserName' = NullStr
  /\ FreshPage("login")
  /\ NoDbCall
  /\ UNCHANGED <<netPageVars, corrupt>>

\* LoginPage.handleAuth: the callback of its timer runs mockAuth.login,
\* onLogin(userName) and navigate('/optimize')
LoginTimerFires(userName) ==
  /\ route = "login"
  /\ lsUserName' = userName
  /\ currentUserName' = userName
  /\ FreshPage("optimize")
  /\ NoDbCall
  /\ UNCHANGED <<netPageVars, corrupt>>

\* ProfilePage: a click on a session of the list
OpenListedSession(id) ==
  /\ \E s \in OrElse(sessions, {}) : s.id = id
  /\ HandleOpenSession(id)

(***************************************************************************)
(* Specifications                                                          *)
(***************************************************************************)
Init == InitStore /\ InitPage /\ InitNet /\ InitApp

Next ==
  \/ \E data \in OptimizationResult : SaveToHistory(data)
  \/ \E data \in DisplayedResult : SaveToProfile(data)
  \/ \E id \in Ids, newName \in Names : UpdateProjectName(id, newName)
  \/ \E id \in Ids : DeleteSnippet(id)
  \/ \E id \in Ids : GetById(id)

Spec == Init /\ [][Next]_vars

\* the records saved where the order is watched: they carry their id and
\* differ in the run
OrderData == [id : Ids, name : {Undefined}, run : Runs]

\* the store under calls that build a history of up to MaxOrder records
OrderNext ==
  \/ \E data \in OrderData : SaveInOrder(data)
  \/ \E data \in [id : Ids, name : Names, run : {1}] : SaveToProfile(data)
  \/ \E id \in Ids, newName \in Names : UpdateProjectName(id, newName)
  \/ \E id \in Ids : DeleteSnippet(id)

OrderSpec == Init /\ [][OrderNext]_vars

PageNext ==
  \/ NavOptimize
  \/ NavHistory
  \/ NavProfile
  \/ \E i \in 1..MaxHistory : OpenSession(i)
  \/ \E i \in 1..MaxHistory : HistoryHandleDelete(i)
  \/ \E i \in 1..MaxHistory : ProfileHandleDeleteSnippet(i)
  \/ TitleClick
  \/ \E name \in TypedNames : TitleChange(name)
  \/ TitleEscape
  \/ HandleRenameSubmit
  \/ \E finalData \in Runs : HandleRunOptimizationRules(finalData)
  \/ HandleRunOptimizationAI
  \/ \E finalData \in Runs : AIResolves(finalData)
  \/ AIRejects
  \/ HandleSaveToProfile
  \/ SaveTimerFires
  \/ JustSavedExpires

PageSpec == Init /\ [][PageNext]_vars

\* the networked profile and optimizer pages with the hand-off slot
NetNext ==
  \/ NetNavProfile
  \/ \E id \in SessionIds : HandleOpenSession(id)
  \/ NetNavOptimize
  \/ \E param \in SessionIds \cup {Undefined, ""} : LoadUrl(param)
  \/ \E stored \in {None} \cup {Some(raw) : raw \in RawValues} :
       StorageSetOpenSession(stored)
  \/ LoadSessionEffect
  \/ ClearCode
  \/ HandleRun
  \/ \E data \in SampleResults : RunResolves(data)
  \/ RunRejects

NetSpec == Init /\ [][NetNext]_vars

\* mockDb under arbitrary calls on a localStorage that may fail
FaultNext ==
  \/ \E key \in {"history", "saved"} : CorruptKey(key)
  \/ \E key \in {"history", "saved"} : TryList(key)
  \/ \E data \in FaultData, writeFails \in BOOLEAN :
       TrySaveToHistory(data, writeFails)
  \/ \E data \in FaultData, writeFails \in BOOLEAN :
       TrySaveToProfile(data, writeFails)
  \/ \E id \in Ids, newName \in Names, failAt \in 0..2 :
       TryUpdateProjectName(id, newName, failAt)
  \/ \E id \in Ids, failAt \in 0..2 : TryDeleteSnippet(id, failAt)
  \/ \E id \in Ids : TryGetById(id)

FaultSpec == Init /\ [][FaultNext]_vars

\* the results the page is run with next to the gateway: those that report
\* no error
GatewayResults == {data \in SampleResults : FalsyStr(data.error)}

\* the networked pages with the Remote Session Gateway
GatewayNext ==
  \/ LoadSessionEffect
  \/ HandleRun
  \/ \E data \in GatewayResults : RunResolves(data)
  \/ RunRejects
  \/ HandleSave
  \/ \E id \in SessionIds : CreateResolves(id)
  \/ CreateRejects
  \/ SaveStatusTimer
  \/ NetTitleClick
  \/ \E name \in TypedNames : NetTitleChange(name)
  \/ \E key \in {"Enter", "Escape"}, ok \in BOOLEAN :
       HandleRenameKeyDown(key, ok)
  \/ \E ok \in BOOLEAN : HandleRenameBlur(ok)
  \/ NetNavProfile
  \/ NetNavOptimize
  \/ \E ok \in BOOLEAN : FetchSessions(ok)
  \/ \E id \in SessionIds : HandleDeleteSession(id)
  \/ \E ok \in BOOLEAN : DeleteCompletes(ok)
  \/ \E id \in SessionIds : OpenListedSession(id)

GatewaySpec == Init /\ [][GatewayNext]_vars

\* the networked optimizer page alone: runs, saves and renames
OptimizerNext ==
  \/ LoadSessionEffect
  \/ HandleRun
  \/ \E data \in SampleResults : RunResolves(data)
  \/ RunRejects
  \/ HandleSave
  \/ \E id \in SessionIds : CreateResolves(id)
  \/ CreateRejects
  \/ SaveStatusTimer
  \/ NetTitleClick
  \/ \E name \in TypedNames : NetTitleChange(name)
  \/ \E key \in {"Enter", "Escape"}, ok \in BOOLEAN :
       HandleRenameKeyDown(key, ok)
  \/ \E ok \in BOOLEAN : HandleRenameBlur(ok)

OptimizerSpec == Init /\ [][OptimizerNext]_vars

\* a request that is in flight completes: fetch resolves or rejects
RunCompletes == (\E data \in SampleResults : RunResolves(data)) \/ RunRejects

CreateCompletes == (\E id \in SessionIds : CreateResolves(id)) \/ CreateRejects

OptimizerLiveSpec ==
  OptimizerSpec /\ WF_vars(RunCompletes) /\ WF_vars(CreateCompletes)

\* the local pages of a logged-in user next to another tab
CrossTabNext ==
  \/ NavOptimize
  \/ NavHistory
  \/ NavProfile
  \/ \E i \in 1..MaxHistory : HistoryHandleDelete(i)
  \/ \E i \in 1..MaxHistory : ProfileHandleDeleteSnippet(i)
  \/ \E finalData \in {1} : HandleRunOptimizationRules(finalData)
  \/ HandleSaveToProfile
  \/ SaveTimerFires
  \/ \E id \in Ids : OtherTabDeleteSnippet(id)
  \/ \E id \in Ids, newName \in Names : OtherTabUpdateProjectName(id, newName)
  \/ OtherTabLogout
  \/ HandleLogout
  \/ \E userName \in {"user"} : LoginTimerFires(userName)

CrossTabSpec == Init /\ [][CrossTabNext]_vars

\* the optimizer page run on every result /api/analyse may return
ClassifyNext ==
  \/ LoadSessionEffect
  \/ HandleRun
  \/ \E data \in PipelineResults : RunResolves(data)
  \/ RunRejects

ClassifySpec == Init /\ [][ClassifyNext]_vars

(***************************************************************************)
(* Properties of the store                                                 *)
(***************************************************************************)
\* no two records of items carry the same id
UniqueIds(items) ==
  \A i, j \in 1..Len(items) : items[i].id = items[j].id => i = j

\* some record of items carries id
HasId(items, id) == \E i \in 1..Len(items) : items[i].id = id

\* C1: the library never holds two entries with the same id, and a
\* saveToProfile call for an id that is already in the library leaves the
\* stored library exactly as it was.
C1_IdempotentLibrarySave ==
  [][/\ UniqueIds(getSavedSnippets')
     /\ (lastOp'.op = "saveToProfile" /\ HasId(getSavedSnippets, lastOp'.id))
          => lsSaved' = lsSaved]_vars

\* a saveToProfile call met its id in a library of two entries
C1_Witness ==
  /\ lastOp.op = "saveToProfile"
  /\ lastOp.matched > 0
  /\ HasId(getSavedSnippets, lastOp.id)
  /\ Len(getSavedSnippets) = 2

\* after updateProjectName(id, X) the records of items with the id are named
\* X and the other records are the records of before, in the same places
RenamedIn(before, after, id, X) ==
  /\ Len(after) = Len(before)
  /\ \A i \in 1..Len(before) :
       IF before[i].id = id
       THEN after[i].id = id /\ after[i].name = X
       ELSE after[i] = before[i]

\* C2: right after updateProjectName(id, X) every record with that id, in
\* the history and in the library, is named X, and every record with another
\* id is unchanged.
C2_RenamePropagation ==
  [][lastOp'.op = "updateProjectName" =>
       /\ RenamedIn(getHistory, getHistory', lastOp'.id, lastOp'.name)
       /\ RenamedIn(getSavedSnippets, getSavedSnippets',
                    lastOp'.id, lastOp'.name)]_vars

\* a rename found its id twice in the history and once in the library, next
\* to a library record with another id
C2_Witness ==
  /\ lastOp.op = "updateProjectName"
  /\ countId(getHistory, lastOp.id) = 2
  /\ countId(getSavedSnippets, lastOp.id) = 1
  /\ \E i \in 1..Len(getSavedSnippets) : getSavedSnippets[i].id # lastOp.id

\* C3: after deleteSnippet(id), getById(id) finds nothing and neither
\* collection lists a record with that id.
C3_DeleteIsTotal ==
  lastOp.op = "deleteSnippet" =>
    /\ getById(lastOp.id) = None
    /\ ~HasId(getHistory, lastOp.id)
    /\ ~HasId(getSavedSnippets, lastOp.id)

\* a delete removed two history entries and a library entry with its id and
\* left a record with another id behind
C3_Witness ==
  /\ lastOp.op = "deleteSnippet"
  /\ lastOp.matched = 3
  /\ Len(getSavedSnippets) > 0

\* C5: after a save of a record that carried its id (no id was drawn at
\* random), the union of the history and the library holds at most one
\* distinct record per id.
C5_IdentityUniqueness ==
  (lastOp.op \in {"saveToHistory", "saveToProfile"} /\ ~lastOp.random) =>
    LET allItems == getHistory \o getSavedSnippets IN
    \A i, j \in 1..Len(allItems) :
      allItems[i].id = allItems[j].id => allItems[i] = allItems[j]

\* C11: not-found is a no-op.  updateProjectName, deleteSnippet and getById
\* called with an id that no record of the history or the library carries
\* throw nothing and leave the records of both collections and their order
\* as they were, and getById returns undefined.
C11_NotFoundNoOp ==
  [][(/\ lastOp'.op \in {"updateProjectName", "deleteSnippet", "getById"}
      /\ ~HasId(getHistory, lastOp'.id)
      /\ ~HasId(getSavedSnippets, lastOp'.id))
       => /\ lastOp'.error = "none"
          /\ getHistory' = getHistory
          /\ getSavedSnippets' = getSavedSnippets
          /\ lastOp'.op = "getById" => lastOp'.ret = None]_vars

\* a rename by an id that is in neither collection ran on a store that holds
\* records in both, under another name
C11_Witness ==
  /\ lastOp.op = "updateProjectName"
  /\ lastOp.matched = 0
  /\ \E i \in 1..Len(getHistory) : getHistory[i].name # lastOp.name
  /\ \E i \in 1..Len(getSavedSnippets) : getSavedSnippets[i].id # lastOp.id

\* the records of after are the records of before, in the same places, but
\* for their names
SameOrder(before, after) ==
  /\ Len(after) = Len(before)
  /\ \A i \in 1..Len(before) :
       after[i].id = before[i].id /\ after[i].run = before[i].run

\* the records of items with another id than id, in the order of items
Remaining(items, id) ==
  LET Keep(r) == r.id # id IN SelectSeq(items, Keep)

\* C14: newest-first history.  saveToHistory puts the record it returns in
\* front of the records the history held, updateProjectName keeps every
\* record of both collections in its place, deleteSnippet leaves the records
\* with another id in the order they had, and getHistory and
\* getSavedSnippets give the empty list when nothing is stored.
C14_NewestFirst ==
  [][/\ lastOp'.op = "saveToHistory" =>
          /\ lastOp'.ret # None
          /\ getHistory' = <<lastOp'.ret[1]>> \o getHistory
          /\ getSavedSnippets' = getSavedSnippets
     /\ lastOp'.op = "updateProjectName" =>
          /\ SameOrder(getHistory, getHistory')
          /\ SameOrder(getSavedSnippets, getSavedSnippets')
     /\ lastOp'.op = "deleteSnippet" =>
          /\ getHistory' = Remaining(getHistory, lastOp'.id)
          /\ getSavedSnippets' = Remaining(getSavedSnippets, lastOp'.id)
     /\ lsHistory = None => getHistory = <<>>
     /\ lsSaved = None => getSavedSnippets = <<>>]_vars

\* a delete took a record out of a history of three and left two different
\* records of another run behind, the newer in front
C14_Witness ==
  /\ lastOp.op = "deleteSnippet"
  /\ lastOp.matched > 0
  /\ Len(getHistory) = 2
  /\ getHistory[1].run = 2
  /\ getHistory[2].run = 1

\* the name is absent or blank: undefined, empty or white space only
Blank(name) == name = Undefined \/ name \in {"", " "}

\* C13: saveToHistory stores and returns the record under the name
\* 'Session-<id>', id being the id of the stored record, when the incoming
\* name is absent or blank, and under the incoming name otherwise.
C13_DefaultName ==
  lastOp.op = "saveToHistory" =>
    /\ lastOp.ret # None
    /\ getHistory # <<>>
    /\ getHistory[1] = lastOp.ret[1]
    /\ lastOp.ret[1].name = IF Blank(lastOp.name)
                             THEN DefaultName(lastOp.ret[1].id)
                             ELSE lastOp.name

\* C22: latest write supersedes.  When the history holds more than one
\* record of an id that is not in the library, getById(id) gives the record
\* of the most recent saveToHistory call for the id, which is the first
\* record of the id in the newest-first history.
C22_LatestWriteSupersedes ==
  (/\ lastOp.op = "getById"
   /\ countId(getHistory, lastOp.id) > 1
   /\ ~HasId(getSavedSnippets, lastOp.id))
    => lastOp.ret = findById(getHistory, lastOp.id)

\* C23: history wins on read.  When an id is in the history and in the
\* library and the library copy differs from every history copy, getById(id)
\* gives a history copy.
C23_HistoryWinsOnRead ==
  (/\ lastOp.op = "getById"
   /\ HasId(getHistory, lastOp.id)
   /\ HasId(getSavedSnippets, lastOp.id)
   /\ \A i \in 1..Len(getHistory) :
        Some(getHistory[i]) # findById(getSavedSnippets, lastOp.id))
    => \E i \in 1..Len(getHistory) :
         getHistory[i].id = lastOp.id /\ lastOp.ret = Some(getHistory[i])

\* every record of before is a record of after, as often
KeepsRecords(before, after) ==
  \A i \in 1..Len(before) :
    Cardinality({j \in 1..Len(after) : after[j] = before[i]})
      >= Cardinality({j \in 1..Len(before) : before[j] = before[i]})

\* C24: store independence.  saveToHistory leaves the library key as it is
\* and saveToProfile leaves the history key as it is; saveToProfile and
\* saveToHistory keep every record both collections held, so a record saved
\* to the library keeps its history entry; and deleteSnippet alone takes
\* records out, those of its id and from both collections.
C24_StoreIndependence ==
  [][/\ lastOp'.op = "saveToHistory" =>
          lsSaved' = lsSaved /\ KeepsRecords(getHistory, getHistory')
     /\ lastOp'.op = "saveToProfile" =>
          lsHistory' = lsHistory
            /\ KeepsRecords(getSavedSnippets, getSavedSnippets')
     /\ lastOp'.op \in {"updateProjectName", "getById"} =>
          /\ Len(getHistory') = Len(getHistory)
          /\ Len(getSavedSnippets') = Len(getSavedSnippets)
     /\ lastOp'.op = "deleteSnippet" =>
          /\ getHistory' = Remaining(getHistory, lastOp'.id)
          /\ getSavedSnippets' = Remaining(getSavedSnippets, lastOp'.id)]_vars

\* a record that the history holds twice has just been written to the
\* library, and the history still holds it twice
C24_Witness ==
  /\ lastOp.op = "saveToProfile"
  /\ lastOp.matched = 2
  /\ countId(getHistory, lastOp.id) = 2
  /\ countId(getSavedSnippets, lastOp.id) = 1

(***************************************************************************)
(* Properties of the local pages                                           *)
(***************************************************************************)
\* C4: whenever an id is in the history and in the library, the two copies
\* carry the same name.
C4_NameConvergence ==
  \A i \in 1..Len(getHistory), j \in 1..Len(getSavedSnippets) :
    getHistory[i].id = getSavedSnippets[j].id
      => getHistory[i].name = getSavedSnippets[j].name

\* C15: a re-run replaces the snapshot.  When the optimizer page that shows
\* a result runs again and saves the new result under the id of the shown
\* one, every stored copy of that id, in the history and in the library,
\* carries the payload of the new run, and so does the record getById gives.
C15_RerunReplaces ==
  [][(optimizationResult # None /\ lastOp'.op = "saveToHistory") =>
       LET id == lastOp'.id
           latest == lastOp'.ret[1].run
           allItems == getHistory' \o getSavedSnippets'
       IN /\ \A i \in 1..Len(allItems) :
               allItems[i].id = id => allItems[i].run = latest
          /\ mapGet(allItems, id) # None
          /\ mapGet(allItems, id)[1].run = latest]_vars

\* C21: cross-tab changes are observed.  Whatever this or another tab has
\* written to localStorage, the user App renders for is the stored user,
\* the history page lists the stored history and the profile page lists
\* the stored library.
C21_CrossTabObserved ==
  /\ currentUserName = lsUserName
  /\ route = "history" => shown = getHistory
  /\ route = "profile" => shown = getSavedSnippets

(***************************************************************************)
(* Properties of the networked optimizer page                              *)
(***************************************************************************)
\* the load-session effect runs in this step
EffectStep == effect = "pending" /\ effect' # "pending"

\* the URL carries a session id and the slot holds an object with that id
HandOffMatches ==
  /\ sessionParam \in SessionIds
  /\ openSession # None
  /\ openSession[1].kind = "object"
  /\ openSession[1].obj[1].id = sessionParam

hydratedVars == <<userCode, netProjectName, netTempName, savedSessionId, result>>

\* C6: hydration is consume-once.  When the effect runs with URL id s and the
\* slot holds an object whose id is s, the slot is removed in that step; and
\* when the effect runs again for s after the slot of s was consumed, with no
\* write to the slot in between, it finds no slot and changes no page state.
C6_ConsumeOnce ==
  [][EffectStep =>
       /\ HandOffMatches => openSession' = None /\ consumed' = sessionParam
       /\ (sessionParam \in SessionIds /\ consumed = sessionParam) =>
            /\ openSession = None
            /\ effect' = "no-slot"
            /\ UNCHANGED <<hydratedVars, openSession>>]_vars

\* the effect has run a second time for the session whose slot was consumed
C6_Witness ==
  /\ effect = "no-slot"
  /\ sessionParam \in SessionIds
  /\ consumed = sessionParam
  /\ savedSessionId = NullStr

\* C7: hydration guard.  The effect takes code, name, savedSessionId and
\* result over from the slot only when the URL carries a session id and the
\* slot holds an object whose id equals it; with no URL id, no slot, a slot
\* that does not parse or a different id it leaves them as they are, raises
\* no error, and it never sets savedSessionId to an id other than the URL id.
C7_HydrationGuard ==
  [][EffectStep =>
       /\ ~HandOffMatches => UNCHANGED hydratedVars /\ ~uncaught'
       /\ hydratedVars' # hydratedVars => HandOffMatches
       /\ savedSessionId' \in {savedSessionId, sessionParam}]_vars

\* the effect has run on a slot that holds the object of another session and
\* the page is at its defaults
C7_Witness ==
  /\ effect = "mismatch"
  /\ openSession # None
  /\ mountedBy = "handleOpenSession"
  /\ savedSessionId = NullStr
  /\ userCode = STARTER_CODE
  /\ netProjectName = "New Session"
  /\ result = None

\* C8: the hand-off write precedes the navigation.  When the profile page
\* opens a session in the optimizer, the optimizer page mounts with a slot
\* that holds a session whose id equals the id of the URL.
C8_HandOffWritten ==
  [][(netRoute = "profile" /\ netRoute' = "optimize"
        /\ mountedBy' = "handleOpenSession")
       => HandOffMatches']_vars

\* the result carries its error report, its rule-based change list and its
\* l2 object with the three lists of it
Complete(res) ==
  /\ res.error_report # None
  /\ res.l1_changes # None
  /\ res.l2 # None
  /\ res.l2[1].changes_applied # None
  /\ res.l2[1].additional_suggestions # None
  /\ res.l2[1].ranked_models # None

\* C25: hydration reconstructs a complete state.  When the effect runs with
\* a slot whose id is the id of the URL, whatever else the slot object
\* holds, the page ends with its code, a name, the id as saved id and a
\* result that is not null and is complete.
C25_HydrationComplete ==
  [][(EffectStep /\ HandOffMatches) =>
       /\ userCode' # Undefined
       /\ ~FalsyStr(netProjectName')
       /\ savedSessionId' = sessionParam
       /\ result' # None
       /\ Complete(result'[1])]_vars

(***************************************************************************)
(* Properties of the classification of a result                            *)
(***************************************************************************)
\* the l1_changes list of the result, <<>> when there is none
ChangeList ==
  IF result = None \/ OrElse(result, [l1_changes |-> None]).l1_changes = None
  THEN <<>>
  ELSE result[1].l1_changes[1]

\* C9: sentinel classification.  hasRealRuleChanges (realL1Changes) is true
\* exactly when the rule-based change list is non-empty and at least one
\* entry does not carry the sentinel phrase in any letter case; a list of
\* sentinel entries only, an empty list and a missing list give false.
C9_SentinelClassification ==
  /\ realL1Changes <=>
       /\ Len(ChangeList) > 0
       /\ \E i \in 1..Len(ChangeList) : ChangeList[i] \in RealChanges
  /\ (\A i \in 1..Len(ChangeList) : ChangeList[i] \in SentinelChanges)
       => ~realL1Changes

\* a result whose list mixes a sentinel entry in capitals with a real change
C9_Witness ==
  /\ realL1Changes
  /\ \E i \in 1..Len(ChangeList) :
       ChangeList[i] \in SentinelChanges \ {NO_CHANGE_SENTINEL}
  /\ \E i \in 1..Len(ChangeList) : ChangeList[i] \in RealChanges

\* C10: isAlreadyOptimal (alreadyOptimal) is true exactly when the rule-based
\* change list is non-empty and hasRealRuleChanges is false; the two flags
\* are never both true, and exactly one of them is true whenever a result
\* with a non-empty rule-based change list is present.
C10_AlreadyOptimal ==
  /\ alreadyOptimal <=> (Len(ChangeList) > 0 /\ ~realL1Changes)
  /\ ~(alreadyOptimal /\ realL1Changes)
  /\ (result # None /\ Len(ChangeList) > 0)
       => (alreadyOptimal # realL1Changes)
  /\ alreadyOptimal =>
       \A i \in 1..Len(ChangeList) : ChangeList[i] \in SentinelChanges

\* a result whose list holds sentinel entries only, in different letter cases
C10_Witness ==
  /\ alreadyOptimal
  /\ ~realL1Changes
  /\ Len(ChangeList) = MaxChanges
  /\ \E i \in 1..Len(ChangeList) : ChangeList[i] # NO_CHANGE_SENTINEL

\* the changes_applied list of the result's l2 object when that object names
\* a winning model, <<>> otherwise
WinnerChanges ==
  IF result = None \/ OrElse(result, [l2 |-> None]).l2 = None THEN <<>>
  ELSE IF FalsyStr(result[1].l2[1].winning_model) THEN <<>>
  ELSE OrElse(result[1].l2[1].changes_applied, <<>>)

\* the findings list of the result's error report, <<>> when there is none
FindingsList ==
  IF resultReport = None \/ OrElse(resultReport, EmptyReport).optimization = None
  THEN <<>>
  ELSE OrElse(resultReport[1].optimization[1].findings, <<>>)

\* C27: hasAnyExplanation is the OR of hasRealRuleChanges (realL1Changes),
\* hasRealAiChanges (realL2), hasOptimizerFindings (hasFindings) and
\* isAlreadyOptimal (alreadyOptimal); realL2 is true exactly when the l2
\* object names a winning model and its applied-changes list is not empty;
\* hasAnyExplanation is false exactly when the rule-based change list is
\* empty, there are no real AI changes and the findings list is empty; and
\* every flag is false when there is no result.
C27_HasAnyExplanation ==
  /\ hasAnyExplanation <=>
       (realL1Changes \/ realL2 \/ hasFindings \/ alreadyOptimal)
  /\ realL2 <=> Len(WinnerChanges) > 0
  /\ hasFindings <=> Len(FindingsList) > 0
  /\ ~hasAnyExplanation <=>
       (Len(ChangeList) = 0 /\ Len(WinnerChanges) = 0 /\ Len(FindingsList) = 0)
  /\ result = None =>
       /\ ~realL1Changes /\ ~realL2 /\ ~hasFindings /\ ~alreadyOptimal
       /\ ~hasAnyExplanation /\ ~hasSecurityIssues /\ ~hasRuntimeRisks

\* a result with a winning model that applied no change, an empty change
\* list and an empty findings list: nothing to explain
C27_Witness ==
  /\ result # None
  /\ ~hasAnyExplanation
  /\ OrElse(result, [l2 |-> None]).l2 # None
  /\ ~FalsyStr(result[1].l2[1].winning_model)
  /\ result[1].l1_changes = Some(<<>>)
  /\ resultReport # None
  /\ resultReport[1].optimization # None

(***************************************************************************)
(* Properties of the store on a localStorage that may fail                 *)
(***************************************************************************)
\* C16: malformed persisted payload.  No call of mockDb lets the failure to
\* parse the text stored under the history or the library key reach its
\* caller.
C16_MalformedPayload == lastOp.error # "SyntaxError"

\* C17: delete is atomic for the caller.  However deleteSnippet(id) ends, it
\* has not removed the id from one collection and left it in the other.
C17_DeleteAtomic ==
  [][lastOp'.op = "deleteSnippet" =>
       LET id == lastOp'.id IN
       /\ ~(/\ HasId(getSavedSnippets, id)
            /\ ~HasId(getSavedSnippets', id)
            /\ HasId(getHistory', id))
       /\ ~(/\ HasId(getHistory, id)
            /\ ~HasId(getHistory', id)
            /\ HasId(getSavedSnippets', id))]_vars

(***************************************************************************)
(* Properties of the pages that call the Remote Session Gateway            *)
(***************************************************************************)
\* the create request of handleSave succeeds in this step
CreateStep ==
  /\ pendingCreate # None
  /\ pendingCreate' = None
  /\ saveStatus' = "saved"

\* C12: id immutability.  A result that already has a saved id keeps that id
\* when it is saved again.
C12_IdImmutable ==
  [][(CreateStep /\ savedSessionId # NullStr /\ result' = result)
       => savedSessionId' = savedSessionId]_vars

\* C18: remote failures are surfaced.  A failing create or rename leaves an
\* error message in apiError of the optimizer page, a failing list or delete
\* one in sessionsError of the profile page.
C18_FailuresSurfaced ==
  [][(lastCall' # lastCall /\ ~lastCall'.ok) =>
       IF lastCall'.op \in {"create", "rename"}
       THEN apiError' # NullStr
       ELSE sessionsError' # NullStr]_vars

\* C19: optimistic delete is reconciled.  When the profile page has loaded
\* its list, no delete is in flight and no failure is recorded on the page,
\* the list holds every session the gateway holds.
C19_DeleteReconciled ==
  (/\ netRoute = "profile"
   /\ sessions # None
   /\ pendingDelete = None
   /\ sessionsError = NullStr)
    => RemoteIds \subseteq {s.id : s \in OrElse(sessions, {})}

\* C20: save-then-rename is serialized.  When the create request of a save
\* completes, the session it created carries the name the page shows, also
\* when a rename was committed while the request was in flight.
C20_SaveThenRename ==
  [][CreateStep =>
       \E s \in remote' :
         s.id = savedSessionId' /\ s.name = netProjectName']_vars

\* the create request of handleSave fails in this step
CreateFails ==
  /\ pendingCreate # None
  /\ pendingCreate' = None
  /\ lastCall' = [op |-> "create", ok |-> FALSE]

\* C26: a failed Save preserves the in-memory state.  When the create
\* request fails, the result, the code, the project name and the saved
\* session id are as before, apiError holds a message, saveStatus is
\* 'error', and isSaving is false again, so that Save can be clicked again.
C26_FailedSavePreserves ==
  [][CreateFails =>
       /\ result' = result
       /\ userCode' = userCode
       /\ netProjectName' = netProjectName
       /\ savedSessionId' = savedSessionId
       /\ apiError' # NullStr
       /\ saveStatus' = "error"
       /\ ~netIsSaving']_vars

\* a second save of a saved result has failed, and the page still shows the
\* result under the id of the first save
C26_Witness ==
  /\ lastCall = [op |-> "create", ok |-> FALSE]
  /\ saveStatus = "error"
  /\ result # None
  /\ savedSessionId # NullStr
  /\ ~netIsSaving

\* C28: the saved id matches the displayed result.  Whenever a result is
\* displayed and savedSessionId is not null, the id was returned for a save
\* of that result, or the page was hydrated with it.
C28_SavedIdMatchesResult ==
  (result # None /\ savedSessionId # NullStr) => savedFor = result

\* C29: Escape cancels a rename.  Escape in the title input leaves
\* projectName as it is and sends no rename request, and so does a blur of
\* the input that follows the Escape; whenever the user renames, the
\* cancellation mark is off, so that Enter or blur ends the rename with the
\* typed name as projectName and, for a saved session, a rename request.
C29_EscapeCancels ==
  [][/\ (netIsRenaming /\ renameCancelledRef') =>
          /\ ~netIsRenaming'
          /\ netProjectName' = netProjectName
          /\ remote' = remote /\ lastCall' = lastCall
     /\ (renameCancelledRef /\ ~renameCancelledRef' /\ ~netIsRenaming') =>
          /\ netProjectName' = netProjectName
          /\ remote' = remote /\ lastCall' = lastCall
     /\ netIsRenaming' => ~renameCancelledRef'
     /\ (netIsRenaming /\ ~netIsRenaming' /\ ~renameCancelledRef') =>
          /\ netProjectName' = finalName(netTempName)
          /\ savedSessionId # NullStr => lastCall'.op = "rename"]_vars

\* Escape has cancelled a rename of a saved session that an earlier rename
\* had named, and no blur has followed
C29_Witness ==
  /\ renameCancelledRef
  /\ ~netIsRenaming
  /\ savedSessionId # NullStr
  /\ netProjectName \in TypedNames
  /\ netTempName = netProjectName

\* C30: the busy flags always clear.  The step in which the call of a Run
\* or of a Save resolves or rejects ends with isProcessing, respectively
\* isSaving, false; a flag is set only while its call is in flight; and when
\* every call completes, a page that is processing or saving stops doing so.
C30_BusyFlagsClear ==
  /\ [][/\ (pendingAnalyse /\ ~pendingAnalyse') => ~netIsProcessing'
        /\ (pendingCreate # None /\ pendingCreate' = None) => ~netIsSaving'
        /\ netIsProcessing' => pendingAnalyse'
        /\ netIsSaving' => pendingCreate' # None]_vars
  /\ (netIsProcessing ~> ~netIsProcessing)
  /\ (netIsSaving ~> ~netIsSaving)

\* a Run has been rejected after a Save had completed, and neither flag is
\* set
C30_Witness ==
  /\ apiError = "Server error: 500"
  /\ lastCall.op = "create"
  /\ ~pendingAnalyse /\ pendingCreate = None
  /\ ~netIsProcessing /\ ~netIsSaving

====
